---------------------------- MODULE Spec2Model ----------------------------
(***************************************************************************)
(* A model of the vault package: the facade Set/Get/Del (vault.go) over    *)
(* the platform adapters set/get/del of the six build targets              *)
(*   darwin   security(1) keychain CLI             (vault_darwin.go)       *)
(*   windows  cmdkey / PowerShell credential store (vault_windows.go)      *)
(*   linux    secret-tool, else files              (vault_ios.go 92-270)   *)
(*   ios      files                                (vault_ios.go 1-90)     *)
(*   android  files                                (unnamed/part_000)      *)
(*   js       IndexedDB                            (vault_js.go)           *)
(*                                                                         *)
(* Text (strings, command output, file contents) is a sequence of          *)
(* character codes; a secret value is a sequence of bytes 0..255.          *)
(* The external stores are state; every external command or file call may  *)
(* respond normally ("ok"), fail for a reason of its own ("fail": tool not *)
(* executable, permission denied, locked keychain) or never respond        *)
(* ("hang").                                                               *)
(***************************************************************************)
EXTENDS Integers, Sequences, FiniteSets, TLC

(***************************************************************************)
(* Bounds of the model.                                                    *)
(***************************************************************************)
\* longest secret value a caller passes
MaxValLen == 2
\* how often secret-tool is installed or removed during a run
MaxToggles == 1

(***************************************************************************)
(* Input domains.                                                          *)
(***************************************************************************)
\* character codes of "/", "a", "b", "c"
Slash == <<47>>
\* the identities callers use: ("a","c") and ("a/b","c") share the key;
\* ("a/b","c") and ("a","b/c") share the concatenation service + "/" + key
Identities == { << <<97>>, <<99>> >>,
                << <<97, 47, 98>>, <<99>> >>,
                << <<97>>, <<98, 47, 99>> >> }
\* what callers pass as (service, key): an identity, or a pair with an empty part
Names == Identities \cup
         { n \in {<<>>, <<97>>} \X {<<>>, <<99>>} : n[1] = <<>> \/ n[2] = <<>> }
\* the bytes values are made of: a newline, 0x00, high-bit bytes, a space
ProbeBytes == <<10, 0, 255, 32, 128>>
\* what callers pass as value: nothing, the first MaxValLen bytes, the last of them
Values == { <<>>, SubSeq(ProbeBytes, 1, MaxValLen),
            SubSeq(ProbeBytes, MaxValLen, MaxValLen) }

\* no entry (text and bytes are sequences of codes >= 0)
None == <<-1>>
\* no adapter: the call was not dispatched; no call
NoAdapter == "none"
NoOp == "none"

(***************************************************************************)
(* encoding/base64 (Go standard library), as the adapters use it.          *)
(***************************************************************************)
\* the character of a 6-bit digit; url = TRUE is base64.URLEncoding
B64Char(url, d) ==
    IF d < 26 THEN 65 + d
    ELSE IF d < 52 THEN 97 + (d - 26)
    ELSE IF d < 62 THEN 48 + (d - 52)
    ELSE IF d = 62 THEN (IF url THEN 45 ELSE 43)
    ELSE (IF url THEN 95 ELSE 47)

\* the 6-bit digit of a character, or -1 when it is not in the alphabet
B64Digit(url, c) ==
    IF c >= 65 /\ c <= 90 THEN c - 65
    ELSE IF c >= 97 /\ c <= 122 THEN c - 97 + 26
    ELSE IF c >= 48 /\ c <= 57 THEN c - 48 + 52
    ELSE IF c = (IF url THEN 45 ELSE 43) THEN 62
    ELSE IF c = (IF url THEN 95 ELSE 47) THEN 63
    ELSE -1

Pad == 61

RECURSIVE EncodeToString(_, _)
EncodeToString(url, b) ==
    IF Len(b) = 0 THEN <<>>
    ELSE IF Len(b) = 1 THEN
        << B64Char(url, b[1] \div 4), B64Char(url, (b[1] % 4) * 16), Pad, Pad >>
    ELSE IF Len(b) = 2 THEN
        << B64Char(url, b[1] \div 4),
           B64Char(url, (b[1] % 4) * 16 + (b[2] \div 16)),
           B64Char(url, (b[2] % 16) * 4), Pad >>
    ELSE
        << B64Char(url, b[1] \div 4),
           B64Char(url, (b[1] % 4) * 16 + (b[2] \div 16)),
           B64Char(url, (b[2] % 16) * 4 + (b[3] \div 64)),
           B64Char(url, b[3] % 64) >>
        \o EncodeToString(url, SubSeq(b, 4, Len(b)))

\* the decoder skips '\r' and '\n' wherever they stand
RECURSIVE StripNewlines(_)
StripNewlines(s) ==
    IF Len(s) = 0 THEN <<>>
    ELSE IF s[1] \in {10, 13} THEN StripNewlines(Tail(s))
    ELSE <<s[1]>> \o StripNewlines(Tail(s))

\* base64.CorruptInputError
DecodeError == <<-3>>

\* one quantum of four characters; padding is legal in the last quantum only
RECURSIVE DecodeQuanta(_, _)
DecodeQuanta(url, s) ==
    IF Len(s) = 0 THEN <<>>
    ELSE IF Len(s) < 4 THEN DecodeError
    ELSE
        LET d1 == B64Digit(url, s[1])
            d2 == B64Digit(url, s[2])
            d3 == B64Digit(url, s[3])
            d4 == B64Digit(url, s[4])
        IN  IF d1 < 0 \/ d2 < 0 THEN DecodeError
            ELSE IF s[3] = Pad THEN
                IF s[4] = Pad /\ Len(s) = 4
                    THEN << d1 * 4 + (d2 \div 16) >>
                    ELSE DecodeError
            ELSE IF d3 < 0 THEN DecodeError
            ELSE IF s[4] = Pad THEN
                IF Len(s) = 4
                    THEN << d1 * 4 + (d2 \div 16), (d2 % 16) * 16 + (d3 \div 4) >>
                    ELSE DecodeError
            ELSE IF d4 < 0 THEN DecodeError
            ELSE
                LET rest == DecodeQuanta(url, SubSeq(s, 5, Len(s)))
                IN  IF rest = DecodeError THEN DecodeError
                    ELSE << d1 * 4 + (d2 \div 16),
                            (d2 % 16) * 16 + (d3 \div 4),
                            (d3 % 4) * 64 + d4 >> \o rest

DecodeString(url, s) == DecodeQuanta(url, StripNewlines(s))

(***************************************************************************)
(* strings.TrimSpace: leading and trailing white space removed.            *)
(***************************************************************************)
IsSpace(c) == c \in {9, 10, 11, 12, 13, 32}

RECURSIVE TrimLeft(_)
TrimLeft(s) ==
    IF Len(s) > 0 /\ IsSpace(s[1]) THEN TrimLeft(Tail(s)) ELSE s

RECURSIVE TrimRight(_)
TrimRight(s) ==
    IF Len(s) > 0 /\ IsSpace(s[Len(s)])
        THEN TrimRight(SubSeq(s, 1, Len(s) - 1)) ELSE s

TrimSpace(s) == TrimRight(TrimLeft(s))

(***************************************************************************)
(* Names the adapters give an identity.                                    *)
(***************************************************************************)
\* service + "/" + key: the Windows credential name
credName(service, key) == service \o Slash \o key

\* the file name getStoragePath derives (the directory is fixed per run)
getStoragePath(service, key) == EncodeToString(TRUE, service \o Slash \o key)

CredNames == { credName(i[1], i[2]) : i \in Identities }
FileNames == { getStoragePath(i[1], i[2]) : i \in Identities }

(***************************************************************************)
(* State.                                                                  *)
(***************************************************************************)
VARIABLES
    goos,          \* the build target of this process
    toolPresent,   \* linux: secret-tool is on PATH right now
    toggles,       \* how often secret-tool was installed or removed so far
    blobRead,      \* windows: this PowerShell runtime reads the credential blob
    keychain,      \* darwin: (service, account) -> password text, or None
    credman,       \* windows: credential name -> password text, or None
    keyring,       \* linux: (service, key) -> secret bytes, or None
    files,         \* file adapters: file name -> contents, or None
    dirExists,     \* file adapters: the storage directory was created
    calls,         \* per calling thread: the facade call it is inside
    last,          \* the facade call that returned last, and its result
    prev,          \* the call before last, when both are successful Sets of one
                   \* key under two services
    expected,      \* identity -> what the successful Set/Del calls left there
    firstAdapter   \* the adapter the first dispatched call was served by

envVars == <<goos, toolPresent, toggles, blobRead>>
stores  == <<keychain, credman, keyring, files, dirExists>>
vars    == <<goos, toolPresent, toggles, blobRead, keychain, credman, keyring, files,
             dirExists, calls, last, prev, expected, firstAdapter>>

Platforms == {"darwin", "windows", "linux", "ios", "android", "js"}
Threads   == {1, 2}
\* what an external command or file call does: responds, fails, never exits
Outcomes  == {"ok", "fail", "hang"}

\* values of the history map besides a secret value
Absent  == <<-1>>
Unknown == <<-2>>
\* the history map once it is not kept any more: a Set or Del failed, or the
\* backend changed under the process
Untracked == [i \in Identities |-> Unknown]

Idle == [pc |-> "idle", op |-> NoOp, service |-> <<>>, key |-> <<>>,
         value |-> <<>>, held |-> None, fault |-> FALSE]
Off  == [Idle EXCEPT !.pc = "off"]
NoCall == [op |-> NoOp, service |-> <<>>, key |-> <<>>, value |-> <<>>,
           held |-> None, ret |-> <<>>, err |-> "nil", adapter |-> NoAdapter,
           fault |-> FALSE]

\* held: for a Set that reaches an adapter, the entry its store has for the
\* identity when the call begins
Call(op, service, key, value) ==
    [op |-> op, service |-> service, key |-> key, value |-> value, held |-> None]

(***************************************************************************)
(* Returning from a facade call, and the bookkeeping of the history.       *)
(***************************************************************************)
\* the history map after call c returned err
Expect(c, adapter, err) ==
    IF adapter = NoAdapter \/ expected = Untracked THEN expected
    ELSE IF c.op = "set" /\ err = "nil"
        THEN [expected EXCEPT ![<<c.service, c.key>>] = c.value]
    ELSE IF c.op = "del" /\ err = "nil"
        THEN [expected EXCEPT ![<<c.service, c.key>>] = Absent]
    ELSE IF c.op \in {"set", "del"} /\ err = "failure" THEN Untracked
    ELSE expected

Note(adapter) == IF firstAdapter = NoAdapter THEN adapter ELSE firstAdapter

\* the call c of thread t returns err (and for Get the bytes ret)
Return(t, c, adapter, fault, err, ret) ==
    /\ calls' = [calls EXCEPT ![t] = Idle]
    /\ last' = [op |-> c.op, service |-> c.service, key |-> c.key,
                value |-> c.value,
                held |-> IF c.op = "set" /\ err # "nil" THEN c.held ELSE None,
                ret |-> ret, err |-> err,
                adapter |-> adapter, fault |-> fault]
    /\ prev' = IF /\ c.op = "set" /\ err = "nil"
                  /\ last.op = "set" /\ last.err = "nil"
                  /\ last.service # c.service /\ last.key = c.key
               THEN last ELSE NoCall
    /\ expected' = Expect(c, adapter, err)
    /\ firstAdapter' = Note(adapter)

\* the call c of thread t goes on at pc
Goto(t, c, pc, adapter, fault) ==
    /\ calls' = [calls EXCEPT ![t] = [pc |-> pc, op |-> c.op, service |-> c.service,
                                      key |-> c.key, value |-> c.value,
                                      held |-> c.held, fault |-> fault]]
    /\ firstAdapter' = Note(adapter)
    /\ UNCHANGED <<last, prev, expected>>

\* cmd.Run() waits for the process to exit and no adapter sets a deadline:
\* the call of thread t stays in the operation c.op
Hang(t, c, adapter) ==
    Goto(t, Call(c.op, <<>>, <<>>, <<>>), "hung", adapter, FALSE)

(***************************************************************************)
(* darwin: the security(1) command-line tool.                              *)
(***************************************************************************)
\* what the tool writes to stderr when the item does not exist
SecurityNotFound == "SecKeychainSearchCopyNext: The specified item could not be found in the keychain."
\* strings.Contains(errStr, "could not be found") ||
\* strings.Contains(errStr, "SecKeychainSearchCopyNext")
darwin_isNotFound(errStr) == errStr = SecurityNotFound

\* security delete-generic-password -a key -s service: exit status, stderr, keychain after
SecurityDelete(service, key, out) ==
    IF out = "fail" THEN [exit |-> 1, stderr |-> "other", kc |-> keychain]
    ELSE IF keychain[<<service, key>>] = None
    THEN [exit |-> 44, stderr |-> SecurityNotFound, kc |-> keychain]
    ELSE [exit |-> 0, stderr |-> "",
          kc |-> [keychain EXCEPT ![<<service, key>>] = None]]

\* the error del returns for a run of the command
darwin_delErr(r) ==
    IF r.exit # 0
    THEN IF darwin_isNotFound(r.stderr) THEN "ErrNotFound" ELSE "failure"
    ELSE "nil"

\* del(service, key)
darwin_del(t, c) ==
    \E out \in Outcomes :
        IF out = "hang"
        THEN Hang(t, c, "keychain") /\ UNCHANGED stores
        ELSE LET r == SecurityDelete(c.service, c.key, out)
             IN  /\ keychain' = r.kc
                 /\ Return(t, c, "keychain", out = "fail", darwin_delErr(r), <<>>)
                 /\ UNCHANGED <<credman, keyring, files, dirExists>>

\* set(service, key, value), up to the start of add-generic-password:
\* _ = del(service, key), its error ignored
darwin_set(t, c) ==
    \E out \in Outcomes :
        IF out = "hang"
        THEN Hang(t, c, "keychain") /\ UNCHANGED stores
        ELSE LET r == SecurityDelete(c.service, c.key, out)
             IN  /\ keychain' = r.kc
                 /\ Goto(t, c, "darwin_add", "keychain", FALSE)
                 /\ UNCHANGED <<credman, keyring, files, dirExists>>

\* set, the rest: security add-generic-password -a key -s service -w encoded -U
darwin_set_add(t) ==
    /\ calls[t].pc = "darwin_add"
    /\ LET c == calls[t]
           encoded == EncodeToString(FALSE, c.value)
       IN  \E out \in Outcomes :
            CASE out = "hang" -> Hang(t, c, "keychain") /\ UNCHANGED stores
              [] out = "fail" ->
                    /\ Return(t, c, "keychain", TRUE, "failure", <<>>)
                    /\ UNCHANGED stores
              [] out = "ok" ->
                    /\ keychain' = [keychain EXCEPT ![<<c.service, c.key>>] = encoded]
                    /\ Return(t, c, "keychain", FALSE, "nil", <<>>)
                    /\ UNCHANGED <<credman, keyring, files, dirExists>>
    /\ UNCHANGED envVars

\* the bytes get returns for the standard output of find-generic-password -w
darwin_decode(stdout) == DecodeString(FALSE, TrimSpace(stdout))

\* get(service, key): security find-generic-password -a key -s service -w
darwin_get(t, c) ==
    /\ UNCHANGED stores
    /\ \E out \in Outcomes :
        CASE out = "hang" -> Hang(t, c, "keychain")
          [] out = "fail" -> Return(t, c, "keychain", TRUE, "failure", <<>>)
          [] out = "ok" ->
                IF keychain[<<c.service, c.key>>] = None
                THEN Return(t, c, "keychain", FALSE,
                            IF darwin_isNotFound(SecurityNotFound)
                                THEN "ErrNotFound" ELSE "failure", <<>>)
                ELSE LET decoded == darwin_decode(keychain[<<c.service, c.key>>] \o <<10>>)
                     IN  IF decoded = DecodeError
                         THEN Return(t, c, "keychain", FALSE, "failure", <<>>)
                         ELSE Return(t, c, "keychain", FALSE, "nil", decoded)

(***************************************************************************)
(* windows: cmdkey and PowerShell.                                         *)
(***************************************************************************)
\* set(service, key, value), the script up to "cmdkey /generic": PowerShell
\* starts and removes the existing credential (cmdkey /delete, errors dropped)
windows_set(t, c) ==
    \E out \in Outcomes :
        CASE out = "hang" -> Hang(t, c, "credman") /\ UNCHANGED stores
          [] out = "fail" ->
                \* powershell cannot be run
                /\ Return(t, c, "credman", TRUE, "failure", <<>>)
                /\ UNCHANGED stores
          [] out = "ok" ->
                /\ credman' = [credman EXCEPT ![credName(c.service, c.key)] = None]
                /\ Goto(t, c, "windows_add", "credman", FALSE)
                /\ UNCHANGED <<keychain, keyring, files, dirExists>>

\* set, the rest of the script: cmdkey /generic:name /user:name /pass:encoded,
\* exit 1 when $LASTEXITCODE is not 0
windows_set_add(t) ==
    /\ calls[t].pc = "windows_add"
    /\ LET c == calls[t]
           encodedValue == EncodeToString(FALSE, c.value)
       IN  \E out \in Outcomes :
            CASE out = "hang" -> Hang(t, c, "credman") /\ UNCHANGED stores
              [] out = "fail" ->
                    /\ Return(t, c, "credman", TRUE, "failure", <<>>)
                    /\ UNCHANGED stores
              [] out = "ok" ->
                    /\ credman' = [credman EXCEPT ![credName(c.service, c.key)] = encodedValue]
                    /\ Return(t, c, "credman", FALSE, "nil", <<>>)
                    /\ UNCHANGED <<keychain, keyring, files, dirExists>>
    /\ UNCHANGED envVars

\* "True" and "\r\n"
TrueText == <<84, 114, 117, 101>>
CRLF == <<13, 10>>

\* What the get script prints for a stored credential.  The value of
\* $advapi32::CredFree($credPtr) is not captured, so PowerShell writes it
\* ("True") to the output before Write-Output $password.  $password is read
\* through [System.Runtime.InteropServices.ComTypes.CREDENTIAL]; where the
\* runtime has no such type the blob stays empty and $password is "".
windows_getOutput(password) ==
    { TrueText \o CRLF \o (IF blobRead THEN password ELSE <<>>) \o CRLF }

\* the result of get for the standard output of a script run that exited 0
windows_getResult(stdout) ==
    LET result == TrimSpace(stdout)
    IN  IF result = <<>> THEN [err |-> "ErrNotFound", ret |-> <<>>]
        ELSE LET decoded == DecodeString(FALSE, result)
             IN  IF decoded = DecodeError
                 THEN [err |-> "failure", ret |-> <<>>]
                 ELSE [err |-> "nil", ret |-> decoded]

\* get(service, key): any failure of the script run is ErrNotFound
windows_get(t, c) ==
    /\ UNCHANGED stores
    /\ \E out \in Outcomes :
        CASE out = "hang" -> Hang(t, c, "credman")
          [] out = "fail" -> Return(t, c, "credman", TRUE, "ErrNotFound", <<>>)
          [] out = "ok" ->
                IF credman[credName(c.service, c.key)] = None
                \* cmdkey /list prints "* NONE *": exit 1
                THEN Return(t, c, "credman", FALSE, "ErrNotFound", <<>>)
                ELSE \E stdout \in windows_getOutput(credman[credName(c.service, c.key)]) :
                        LET r == windows_getResult(stdout)
                        IN  Return(t, c, "credman", FALSE, r.err, r.ret)

\* strings.Contains(lower(errStr), "not found") || ... "none"
windows_isNotFound(errStr) == errStr \in {"Element not found.", "* NONE *"}

\* del(service, key): cmdkey /delete:name
windows_del(t, c) ==
    \E out \in Outcomes :
        CASE out = "hang" -> Hang(t, c, "credman") /\ UNCHANGED stores
          [] out = "fail" ->
                /\ Return(t, c, "credman", TRUE,
                          IF windows_isNotFound("other") THEN "ErrNotFound" ELSE "failure",
                          <<>>)
                /\ UNCHANGED stores
          [] out = "ok" ->
                IF credman[credName(c.service, c.key)] = None
                THEN /\ Return(t, c, "credman", FALSE,
                               IF windows_isNotFound("Element not found.")
                                   THEN "ErrNotFound" ELSE "failure", <<>>)
                     /\ UNCHANGED stores
                ELSE /\ credman' = [credman EXCEPT ![credName(c.service, c.key)] = None]
                     /\ Return(t, c, "credman", FALSE, "nil", <<>>)
                     /\ UNCHANGED <<keychain, keyring, files, dirExists>>

(***************************************************************************)
(* File storage: the linux fallback, ios and android.                      *)
(***************************************************************************)
\* getStorageDir: os.MkdirAll(dir, 0700) creates the directory or fails; on an
\* existing directory it has nothing to do
MkdirAll == IF dirExists THEN {"ok"} ELSE {"ok", "fail"}

\* os.WriteFile(path, data, 0600) opens the file with O_CREATE|O_TRUNC and then
\* writes: it succeeds, fails at the open ("fail": the file is as it was), or
\* fails at the write ("short": disk full, quota, I/O error; the file is left
\* empty)
WriteFile == {"ok", "fail", "short"}

\* set: getStoragePath (MkdirAll of the directory), base64, os.WriteFile
FileStoreSet(t, c, adapter) ==
    /\ UNCHANGED <<keychain, credman, keyring>>
    /\ \E mkdir \in MkdirAll, write \in WriteFile :
        IF mkdir = "fail"
        THEN /\ Return(t, c, adapter, TRUE, "failure", <<>>)
             /\ UNCHANGED <<files, dirExists>>
        ELSE /\ dirExists' = TRUE
             /\ IF write = "fail"
                THEN /\ Return(t, c, adapter, TRUE, "failure", <<>>)
                     /\ UNCHANGED files
                ELSE IF write = "short"
                THEN /\ Return(t, c, adapter, TRUE, "failure", <<>>)
                     /\ files' = [files EXCEPT ![getStoragePath(c.service, c.key)] = <<>>]
                ELSE /\ files' = [files EXCEPT ![getStoragePath(c.service, c.key)] =
                                        EncodeToString(FALSE, c.value)]
                     /\ Return(t, c, adapter, FALSE, "nil", <<>>)

\* the bytes get returns for the contents of the file
FileStoreDecode(data) == DecodeString(FALSE, TrimSpace(data))

\* get: getStoragePath, os.ReadFile, os.IsNotExist, TrimSpace, base64
FileStoreGet(t, c, adapter) ==
    /\ UNCHANGED <<keychain, credman, keyring, files>>
    /\ \E mkdir \in MkdirAll, read \in {"ok", "fail"} :
        IF mkdir = "fail"
        THEN /\ Return(t, c, adapter, TRUE, "failure", <<>>)
             /\ UNCHANGED dirExists
        ELSE /\ dirExists' = TRUE
             /\ IF files[getStoragePath(c.service, c.key)] = None
                THEN Return(t, c, adapter, FALSE, "ErrNotFound", <<>>)
                ELSE IF read = "fail"
                THEN Return(t, c, adapter, TRUE, "failure", <<>>)
                ELSE LET decoded == FileStoreDecode(files[getStoragePath(c.service, c.key)])
                     IN  IF decoded = DecodeError
                         THEN Return(t, c, adapter, FALSE, "failure", <<>>)
                         ELSE Return(t, c, adapter, FALSE, "nil", decoded)

\* del: getStoragePath, os.Remove, os.IsNotExist
FileStoreDel(t, c, adapter) ==
    /\ UNCHANGED <<keychain, credman, keyring>>
    /\ \E mkdir \in MkdirAll, remove \in {"ok", "fail"} :
        IF mkdir = "fail"
        THEN /\ Return(t, c, adapter, TRUE, "failure", <<>>)
             /\ UNCHANGED <<files, dirExists>>
        ELSE /\ dirExists' = TRUE
             /\ IF files[getStoragePath(c.service, c.key)] = None
                THEN /\ Return(t, c, adapter, FALSE, "ErrNotFound", <<>>)
                     /\ UNCHANGED files
                ELSE IF remove = "fail"
                THEN /\ Return(t, c, adapter, TRUE, "failure", <<>>)
                     /\ UNCHANGED files
                ELSE /\ files' = [files EXCEPT ![getStoragePath(c.service, c.key)] = None]
                     /\ Return(t, c, adapter, FALSE, "nil", <<>>)

setFileStorage(t, c)    == FileStoreSet(t, c, "file")
getFileStorage(t, c)    == FileStoreGet(t, c, "file")
deleteFileStorage(t, c) == FileStoreDel(t, c, "file")

ios_set(t, c) == FileStoreSet(t, c, "file")
ios_get(t, c) == FileStoreGet(t, c, "file")
ios_del(t, c) == FileStoreDel(t, c, "file")

android_set(t, c) == FileStoreSet(t, c, "file")
android_get(t, c) == FileStoreGet(t, c, "file")
android_del(t, c) == FileStoreDel(t, c, "file")

(***************************************************************************)
(* linux: secret-tool, probed on every call.                               *)
(***************************************************************************)
\* the probe with its test the wrong way round (err != nil)
hasSecretTool_Inverted == ~toolPresent

\* exec.LookPath("secret-tool") succeeds
hasSecretTool == toolPresent

\* secret-tool store, the value on standard input as it is
setSecretTool(t, c) ==
    \E out \in Outcomes :
        CASE out = "hang" -> Hang(t, c, "secret-tool") /\ UNCHANGED stores
          [] out = "fail" ->
                /\ Return(t, c, "secret-tool", TRUE, "failure", <<>>)
                /\ UNCHANGED stores
          [] out = "ok" ->
                /\ keyring' = [keyring EXCEPT ![<<c.service, c.key>>] = c.value]
                /\ Return(t, c, "secret-tool", FALSE, "nil", <<>>)
                /\ UNCHANGED <<keychain, credman, files, dirExists>>

\* the result of getSecretTool for a run of secret-tool lookup
secretToolLookupResult(exit, stdout) ==
    IF exit # 0
    THEN IF Len(stdout) = 0 THEN [err |-> "ErrNotFound", ret |-> <<>>]
         ELSE [err |-> "failure", ret |-> <<>>]
    ELSE IF Len(stdout) = 0 THEN [err |-> "ErrNotFound", ret |-> <<>>]
    ELSE [err |-> "nil", ret |-> stdout]

\* a lookup that takes the secret out of the keyring
getSecretTool_Consuming(t, c) ==
    /\ keyring' = [keyring EXCEPT ![<<c.service, c.key>>] = None]
    /\ UNCHANGED <<keychain, credman, files, dirExists>>
    /\ LET stored == keyring[<<c.service, c.key>>]
           r == IF stored = None THEN secretToolLookupResult(1, <<>>)
                ELSE secretToolLookupResult(0, stored)
       IN  Return(t, c, "secret-tool", FALSE, r.err, r.ret)

\* secret-tool lookup: the stored bytes on standard output, exit 1 and no
\* output when nothing matches
getSecretTool(t, c) ==
    /\ UNCHANGED stores
    /\ \E out \in Outcomes :
        CASE out = "hang" -> Hang(t, c, "secret-tool")
          [] out = "fail" ->
                \* the tool fails before it prints anything
                LET r == secretToolLookupResult(1, <<>>)
                IN  Return(t, c, "secret-tool", TRUE, r.err, r.ret)
          [] out = "ok" ->
                LET stored == keyring[<<c.service, c.key>>]
                    r == IF stored = None THEN secretToolLookupResult(1, <<>>)
                         ELSE secretToolLookupResult(0, stored)
                IN  Return(t, c, "secret-tool", FALSE, r.err, r.ret)

\* the error deleteSecretTool returns for the exit status of secret-tool clear
secretToolClearErr(exit) == IF exit # 0 THEN "failure" ELSE "nil"

\* secret-tool clear: removes what matches; with nothing to remove it exits
\* 0 or 1, as the version of the tool has it, and prints nothing
deleteSecretTool(t, c) ==
    \E out \in Outcomes :
        CASE out = "hang" -> Hang(t, c, "secret-tool") /\ UNCHANGED stores
          [] out = "fail" ->
                /\ Return(t, c, "secret-tool", TRUE, secretToolClearErr(1), <<>>)
                /\ UNCHANGED stores
          [] out = "ok" ->
                /\ keyring' = [keyring EXCEPT ![<<c.service, c.key>>] = None]
                /\ \E exit \in (IF keyring[<<c.service, c.key>>] = None THEN {0, 1} ELSE {0}) :
                        Return(t, c, "secret-tool", FALSE, secretToolClearErr(exit), <<>>)
                /\ UNCHANGED <<keychain, credman, files, dirExists>>

linux_set(t, c) == IF hasSecretTool THEN setSecretTool(t, c) ELSE setFileStorage(t, c)
linux_get(t, c) == IF hasSecretTool THEN getSecretTool(t, c) ELSE getFileStorage(t, c)
linux_del(t, c) == IF hasSecretTool THEN deleteSecretTool(t, c) ELSE deleteFileStorage(t, c)

(***************************************************************************)
(* js: IndexedDB.                                                          *)
(***************************************************************************)
\* set, get, del: withStore opens the database and waits on its channel
js_withStore(t, c) ==
    /\ Goto(t, c, "js_open", "indexeddb", FALSE)
    /\ UNCHANGED stores

\* The open request completes.  onerror: withStore returns the error.
\* onsuccess: fn(store) runs inside the callback.  set calls
\* store.put(record, storeKey) on a store created with keyPath "key", which
\* IndexedDB rejects with a DataError exception: the callback panics.  get
\* and del issue their request and receive from their channel inside the
\* callback, which keeps the event loop from ever delivering the request's
\* own callback.
js_open_done(t) ==
    /\ calls[t].pc = "js_open"
    /\ LET c == calls[t]
       IN  \E out \in {"ok", "fail"} :
            IF out = "fail"
            THEN Return(t, c, "indexeddb", TRUE, "failure", <<>>)
            ELSE Goto(t, c, IF c.op = "set" THEN "js_panic" ELSE "js_blocked",
                      "indexeddb", FALSE)
    /\ UNCHANGED <<envVars, stores>>

(***************************************************************************)
(* The build's set/get/del, and the facade.                                *)
(***************************************************************************)
set(t, c) ==
    CASE goos = "darwin"  -> darwin_set(t, c)
      [] goos = "windows" -> windows_set(t, c)
      [] goos = "linux"   -> linux_set(t, c)
      [] goos = "ios"     -> ios_set(t, c)
      [] goos = "android" -> android_set(t, c)
      [] goos = "js"      -> js_withStore(t, c)

get(t, c) ==
    CASE goos = "darwin"  -> darwin_get(t, c)
      [] goos = "windows" -> windows_get(t, c)
      [] goos = "linux"   -> linux_get(t, c)
      [] goos = "ios"     -> ios_get(t, c)
      [] goos = "android" -> android_get(t, c)
      [] goos = "js"      -> js_withStore(t, c)

del(t, c) ==
    CASE goos = "darwin"  -> darwin_del(t, c)
      [] goos = "windows" -> windows_del(t, c)
      [] goos = "linux"   -> linux_del(t, c)
      [] goos = "ios"     -> ios_del(t, c)
      [] goos = "android" -> android_del(t, c)
      [] goos = "js"      -> js_withStore(t, c)

\* Set without its check of the value
SetCheck_NoValueCheck(service, key, value) ==
    IF service = <<>> \/ key = <<>> THEN "ErrInvalidKey" ELSE "nil"

\* the facade's checks: the error to return at once, or "nil" to go on
SetCheck(service, key, value) ==
    IF service = <<>> \/ key = <<>> THEN "ErrInvalidKey"
    ELSE IF Len(value) = 0 THEN "ErrInvalidValue"
    ELSE "nil"

KeyCheck(service, key) ==
    IF service = <<>> \/ key = <<>> THEN "ErrInvalidKey" ELSE "nil"

\* the entry the store of the adapter has for the identity
Entry(adapter, service, key) ==
    CASE adapter = "keychain"    -> keychain[<<service, key>>]
      [] adapter = "credman"     -> credman[credName(service, key)]
      [] adapter = "secret-tool" -> keyring[<<service, key>>]
      [] adapter = "file"        -> files[getStoragePath(service, key)]
      [] OTHER                   -> None

\* the adapter set(service, key, value) is served by when called now
Adapter ==
    CASE goos = "darwin"  -> "keychain"
      [] goos = "windows" -> "credman"
      [] goos = "linux"   -> IF hasSecretTool THEN "secret-tool" ELSE "file"
      [] goos = "js"      -> "indexeddb"
      [] OTHER            -> "file"

Set(t, service, key, value) ==
    /\ calls[t].pc = "idle"
    /\ LET e == SetCheck(service, key, value)
           c == [Call("set", service, key, value) EXCEPT
                    !.held = IF e = "nil" THEN Entry(Adapter, service, key) ELSE None]
       IN  IF e # "nil"
           THEN Return(t, c, NoAdapter, FALSE, e, <<>>) /\ UNCHANGED stores
           ELSE set(t, c)
    /\ UNCHANGED envVars

Get(t, service, key) ==
    /\ calls[t].pc = "idle"
    /\ LET c == Call("get", service, key, <<>>)
           e == KeyCheck(service, key)
       IN  IF e # "nil"
           THEN Return(t, c, NoAdapter, FALSE, e, <<>>) /\ UNCHANGED stores
           ELSE get(t, c)
    /\ UNCHANGED envVars

Del(t, service, key) ==
    /\ calls[t].pc = "idle"
    /\ LET c == Call("del", service, key, <<>>)
           e == KeyCheck(service, key)
       IN  IF e # "nil"
           THEN Return(t, c, NoAdapter, FALSE, e, <<>>) /\ UNCHANGED stores
           ELSE del(t, c)
    /\ UNCHANGED envVars

(***************************************************************************)
(* The environment: secret-tool is installed or removed while the process  *)
(* runs (linux); a step of SpecEnv.                                        *)
(***************************************************************************)
ToggleTool ==
    /\ goos = "linux"
    /\ toggles < MaxToggles
    /\ toolPresent' = ~toolPresent
    /\ toggles' = toggles + 1
    /\ expected' = Untracked
    /\ UNCHANGED <<goos, blobRead, stores, calls, last, prev, firstAdapter>>

(***************************************************************************)
(* The specification: one thread calls the facade, one call at a time, on  *)
(* a backend that stays as it is.                                          *)
(***************************************************************************)
\* the goroutines of the specifications below
Writer == 1
Reader == 2
\* the identity ("a", "c")
Shared == << <<97>>, <<99>> >>

Init ==
    /\ goos \in Platforms
    /\ toolPresent \in (IF goos = "linux" THEN BOOLEAN ELSE {FALSE})
    /\ toggles = 0
    /\ blobRead \in (IF goos = "windows" THEN BOOLEAN ELSE {FALSE})
    /\ keychain = [i \in Identities |-> None]
    /\ credman = [n \in CredNames |-> None]
    /\ keyring = [i \in Identities |-> None]
    /\ files = [n \in FileNames |-> None]
    /\ dirExists = FALSE
    /\ calls = [t \in Threads |-> IF t = 1 THEN Idle ELSE Off]
    /\ last = NoCall
    /\ prev = NoCall
    /\ expected = [i \in Identities |-> Absent]
    /\ firstAdapter = NoAdapter

Next ==
    \/ \E t \in Threads, n \in Names, v \in Values : Set(t, n[1], n[2], v)
    \/ \E t \in Threads, n \in Names : Get(t, n[1], n[2])
    \/ \E t \in Threads, n \in Names : Del(t, n[1], n[2])
    \/ \E t \in Threads : darwin_set_add(t)
    \/ \E t \in Threads : windows_set_add(t)
    \/ \E t \in Threads : js_open_done(t)

Spec == Init /\ [][Next]_vars

(***************************************************************************)
(* The specification with a changing environment: a linux process calls    *)
(* the facade on one identity while secret-tool is installed or removed.   *)
(***************************************************************************)
InitEnv == Init /\ goos = "linux"

NextEnv ==
    \/ \E v \in Values : Set(Writer, Shared[1], Shared[2], v)
    \/ Get(Writer, Shared[1], Shared[2])
    \/ Del(Writer, Shared[1], Shared[2])
    \/ ToggleTool

SpecEnv == InitEnv /\ [][NextEnv]_vars

(***************************************************************************)
(* The concurrent specification: goroutine 1 calls Set on one identity     *)
(* again and again while goroutine 2 calls Get on it; the backend is       *)
(* fixed.  The package has no lock or other state of its own, so the calls *)
(* interleave at the external commands.                                    *)
(***************************************************************************)
InitConc ==
    /\ goos \in Platforms
    /\ toolPresent \in (IF goos = "linux" THEN BOOLEAN ELSE {FALSE})
    /\ toggles = 0
    /\ blobRead \in (IF goos = "windows" THEN BOOLEAN ELSE {FALSE})
    /\ keychain = [i \in Identities |-> None]
    /\ credman = [n \in CredNames |-> None]
    /\ keyring = [i \in Identities |-> None]
    /\ files = [n \in FileNames |-> None]
    /\ dirExists = FALSE
    /\ calls = [t \in Threads |-> Idle]
    /\ last = NoCall
    /\ prev = NoCall
    /\ expected = [i \in Identities |-> Absent]
    /\ firstAdapter = NoAdapter

NextConc ==
    \/ \E v \in Values : Set(Writer, Shared[1], Shared[2], v)
    \/ Get(Reader, Shared[1], Shared[2])
    \/ \E t \in Threads : darwin_set_add(t)
    \/ \E t \in Threads : windows_set_add(t)
    \/ \E t \in Threads : js_open_done(t)

SpecConc == InitConc /\ [][NextConc]_vars

(***************************************************************************)
(* Vocabulary of the properties.                                           *)
(***************************************************************************)
\* no call is under way: the state is the one a caller sees after a return
Quiescent == \A t \in Threads : calls[t].pc \in {"idle", "off"}

\* the last call reached an adapter
Dispatched == last.adapter # NoAdapter

\* the history map is kept: every Set and Del so far succeeded or found
\* nothing, and the backend did not change
Tracked == expected # Untracked

IsValue(e) == e # Absent /\ e # Unknown

\* the adapter's store holds an entry for the identity
StoredIn(adapter, service, key) ==
    CASE adapter = "keychain"    -> keychain[<<service, key>>] # None
      [] adapter = "credman"     -> credman[credName(service, key)] # None
      [] adapter = "secret-tool" -> keyring[<<service, key>>] # None
      [] adapter = "file"        -> files[getStoragePath(service, key)] # None
      [] OTHER                   -> FALSE

\* a call returns in this step, and it is an op on an identity, served by an
\* adapter whose commands all responded normally
Returns(op) ==
    /\ last' # last
    /\ last'.op = op
    /\ last'.adapter # NoAdapter
    /\ ~last'.fault

(***************************************************************************)
(* C1.  Round trip: a successful Set(service, key, value) immediately      *)
(* followed by Get(service, key), served by the same adapter with every    *)
(* command responding normally, returns exactly value, on every adapter.   *)
(***************************************************************************)
C1_RoundTrip ==
    [][ ( /\ last.op = "set" /\ last.err = "nil"
          /\ Returns("get")
          /\ last'.service = last.service /\ last'.key = last.key
          /\ last'.adapter = last.adapter )
        => (last'.err = "nil" /\ last'.ret = last.value) ]_vars

(***************************************************************************)
(* C2.  Last write wins: with a fixed backend and after successful Set and *)
(* Del calls only, Get(s, k) returns the value of the most recent          *)
(* Set(s, k, _) that no Del(s, k) followed.                                *)
(***************************************************************************)
C2_LastWriteWins ==
    ( /\ Quiescent /\ last.op = "get" /\ Dispatched /\ ~last.fault
      /\ Tracked /\ IsValue(expected[<<last.service, last.key>>]) )
    => ( /\ last.err = "nil"
         /\ last.ret = expected[<<last.service, last.key>>] )

(***************************************************************************)
(* C3.  Whenever the identity has no stored value, because it was never    *)
(* set or because the last Set or Del of it that took effect was a         *)
(* successful Del, a Get of it whose commands respond normally returns     *)
(* exactly ErrNotFound (fixed backend, no failed Set or Del before).       *)
(***************************************************************************)
C3_AbsentGetNotFound ==
    ( /\ Quiescent /\ last.op = "get" /\ Dispatched /\ ~last.fault
      /\ Tracked /\ expected[<<last.service, last.key>>] = Absent )
    => (last.err = "ErrNotFound" /\ last.ret = <<>>)

(***************************************************************************)
(* C4.  Del on an identity that has no stored value returns ErrNotFound,   *)
(* never success and never a failure, on every adapter.                    *)
(***************************************************************************)
C4_AbsentDelNotFound ==
    [][ ( /\ Returns("del")
          /\ ~StoredIn(last'.adapter, last'.service, last'.key) )
        => last'.err = "ErrNotFound" ]_vars

(***************************************************************************)
(* C5.  Validation precedes dispatch: a Set with an empty service, key or  *)
(* value, and a Get or Del with an empty service or key, returns           *)
(* ErrInvalidKey or ErrInvalidValue, reaches no adapter, and leaves every  *)
(* store and the storage directory as they were.                           *)
(***************************************************************************)
C5_ValidationPrecedesDispatch ==
    [][ ( /\ last' # last
          /\ \/ last'.service = <<>>
             \/ last'.key = <<>>
             \/ last'.op = "set" /\ last'.value = <<>> )
        => ( /\ last'.err = IF last'.service = <<>> \/ last'.key = <<>>
                            THEN "ErrInvalidKey" ELSE "ErrInvalidValue"
             /\ last'.adapter = NoAdapter
             /\ UNCHANGED stores
             /\ UNCHANGED firstAdapter ) ]_vars

\* Set(service, key, <empty>) returned ErrInvalidValue while files are stored
C5_Witness ==
    /\ last.op = "set" /\ last.err = "ErrInvalidValue"
    /\ last.service # <<>> /\ last.key # <<>> /\ last.value = <<>>
    /\ \E n \in FileNames : files[n] # None

(***************************************************************************)
(* C6.  Isolation: after a successful Set(app1, k, v1) followed by a       *)
(* successful Set(app2, k, v2), app1 # app2, a Get(app1, k) whose commands *)
(* respond normally returns v1 and such a Get(app2, k) returns v2, the     *)
(* three calls served by one adapter.                                      *)
(***************************************************************************)
C6_Isolation ==
    [][ ( /\ prev.op = "set" /\ last.op = "set"
          /\ prev.service # last.service /\ prev.key = last.key
          /\ Returns("get")
          /\ prev.adapter = last.adapter /\ last'.adapter = last.adapter )
        => /\ (last'.service = prev.service /\ last'.key = prev.key)
                => (last'.err = "nil" /\ last'.ret = prev.value)
           /\ (last'.service = last.service /\ last'.key = last.key)
                => (last'.err = "nil" /\ last'.ret = last.value) ]_vars

(***************************************************************************)
(* C7.  The backend is selected once: every call of the process is served  *)
(* by the adapter that served the first one, also when secret-tool is      *)
(* installed or removed later.                                             *)
(***************************************************************************)
C7_SelectionStable ==
    (goos = "linux" /\ Dispatched) => last.adapter = firstAdapter

(***************************************************************************)
(* C8.  Fallback determinism: while secret-tool has been unavailable for   *)
(* the whole run, every call is served by the file adapter, never by       *)
(* secret-tool, and on it a Get right after a successful Set of the        *)
(* identity (a first one or an overwrite) returns the value set, and a Get *)
(* right after a successful Del of it returns ErrNotFound.                 *)
(***************************************************************************)
C8_FallbackDeterminism ==
    [][ (goos = "linux" /\ ~toolPresent /\ toggles = 0)
        => /\ (last' # last /\ last'.adapter # NoAdapter) => last'.adapter = "file"
           /\ ( /\ Returns("get")
                /\ last'.service = last.service /\ last'.key = last.key
                /\ last.op = "set" /\ last.err = "nil" )
              => (last'.err = "nil" /\ last'.ret = last.value)
           /\ ( /\ Returns("get")
                /\ last'.service = last.service /\ last'.key = last.key
                /\ last.op = "del" /\ last.err = "nil" )
              => (last'.err = "ErrNotFound" /\ last'.ret = <<>>) ]_vars

\* on the fallback a Get returned the longest value from a file, while
\* another file holds another value
C8_Witness ==
    /\ goos = "linux" /\ ~toolPresent /\ toggles = 0 /\ Quiescent
    /\ last.op = "get" /\ last.adapter = "file" /\ last.err = "nil"
    /\ Len(last.ret) = MaxValLen
    /\ files[getStoragePath(last.service, last.key)] = EncodeToString(FALSE, last.ret)
    /\ \E n \in FileNames :
        files[n] \notin {None, files[getStoragePath(last.service, last.key)]}

(***************************************************************************)
(* C9.  ErrNotFound is returned only on an absence signal of the tool:     *)
(* a call in which a command failed for another reason returns a failure   *)
(* that is not ErrNotFound.                                                *)
(***************************************************************************)
C9_NotFoundOnlyOnAbsence ==
    (last.op \in {"get", "del"} /\ last.fault) => last.err = "failure"

(***************************************************************************)
(* C10.  Every call returns: a call under way can always take a step, also *)
(* when the external tool does not respond.                                *)
(***************************************************************************)
Continue(t) ==
    \/ darwin_set_add(t)
    \/ windows_set_add(t)
    \/ js_open_done(t)

C10_CallsReturn ==
    \A t \in Threads :
        calls[t].pc \notin {"idle", "off"} => ENABLED Continue(t)

(***************************************************************************)
(* C11.  Stored values are never empty: no store holds an entry with an    *)
(* empty value, and a Get that returns without error never returns an      *)
(* empty byte sequence.                                                    *)
(***************************************************************************)
C11_NoEmptyValue ==
    /\ \A i \in Identities :
        /\ keychain[i] # <<>>
        /\ keyring[i] # <<>>
        /\ credman[credName(i[1], i[2])] # <<>>
        /\ files[getStoragePath(i[1], i[2])] # <<>>
    /\ (last.op = "get" /\ last.err = "nil") => last.ret # <<>>

(***************************************************************************)
(* C12.  Get is a pure read: a step in which a Get returns, whatever its   *)
(* outcome, leaves every entry of every store as it was, and a Get that    *)
(* directly follows a Get of the same identity on the same adapter, both   *)
(* with their commands responding normally, returns the same result.       *)
(***************************************************************************)
C12_GetIsPureRead ==
    [][ /\ (last' # last /\ last'.op = "get")
            => UNCHANGED <<keychain, credman, keyring, files>>
        /\ ( /\ last.op = "get" /\ last.adapter # NoAdapter /\ ~last.fault
             /\ Returns("get")
             /\ last'.service = last.service /\ last'.key = last.key
             /\ last'.adapter = last.adapter )
           => (last'.err = last.err /\ last'.ret = last.ret) ]_vars

\* a Get returned the longest value from the keyring, which still holds it
\* and another entry
C12_Witness ==
    /\ Quiescent
    /\ last.op = "get" /\ last.err = "nil" /\ last.adapter = "secret-tool"
    /\ Len(last.ret) = MaxValLen
    /\ keyring[<<last.service, last.key>>] = last.ret
    /\ \E i \in Identities :
        i # <<last.service, last.key>> /\ keyring[i] # None

(***************************************************************************)
(* C13.  File names are collision-free and separator-free: the file name   *)
(* getStoragePath derived for the identity of a call the file adapter      *)
(* served is the file name of no other identity, holds no "/" and no ".".  *)
(***************************************************************************)
C13_PathsDistinct ==
    (last.adapter = "file")
    => LET path == getStoragePath(last.service, last.key)
       IN  /\ \A j \in Identities :
                j # <<last.service, last.key>> => getStoragePath(j[1], j[2]) # path
           /\ \A n \in DOMAIN path : path[n] \notin {47, 46}

(***************************************************************************)
(* C14.  In the browser adapter every operation is completed by a callback *)
(* result and returns to its caller: no call is left waiting inside the    *)
(* callback of the database open request.                                  *)
(***************************************************************************)
C14_JsCallsComplete ==
    \A t \in Threads : calls[t].pc # "js_blocked"

(***************************************************************************)
(* C15.  Failure atomicity of Set: when a Set of an identity that holds a  *)
(* value returns an error, the store has the entry it had when the call    *)
(* began.                                                                  *)
(***************************************************************************)
C15_FailedSetKeepsValue ==
    ( /\ Quiescent /\ Dispatched
      /\ last.op = "set" /\ last.err = "failure"
      /\ last.held \notin {None, <<>>} )
    => Entry(last.adapter, last.service, last.key) = last.held

(***************************************************************************)
(* C16.  Once a Set of the identity has succeeded and while no Set has     *)
(* failed and nobody deletes it, a Get whose commands respond normally,    *)
(* running while another goroutine overwrites the identity, returns a      *)
(* value: never ErrNotFound or another error, and never an empty value.    *)
(***************************************************************************)
C16_ConcurrentGetSeesValue ==
    [][ ( /\ Returns("get")
          /\ Tracked
          /\ IsValue(expected[<<last'.service, last'.key>>]) )
        => (last'.err = "nil" /\ last'.ret # <<>>) ]_vars

(***************************************************************************)
(* C17.  On the windows adapter, which names an entry service + "/" + key, *)
(* a step of a Set or Del on one identity leaves the entry that a Get of   *)
(* any other identity reads as it was.                                     *)
(***************************************************************************)
\* the identities of the calls that take this step
Acting ==
    LET under == {t \in Threads : calls[t].pc \notin {"idle", "off"}}
        begun == {t \in Threads : calls'[t].pc \notin {"idle", "off"}}
    IN  IF under # {} THEN {<<calls[t].service, calls[t].key>> : t \in under}
        ELSE IF begun # {} THEN {<<calls'[t].service, calls'[t].key>> : t \in begun}
        ELSE {<<last'.service, last'.key>>}

C17_OtherEntriesKept ==
    [][ goos = "windows"
        => \A j \in Identities :
            j \notin Acting
                => Entry("credman", j[1], j[2])' = Entry("credman", j[1], j[2]) ]_vars

=============================================================================
